---- MODULE Spec2Model ----
(***************************************************************************)
(* premonition: a registry from TypeMeta to reflect.Type (registry.go) and *)
(* a two-pass decoder that reads a stream of documents, looks each one's   *)
(* type_name up in the registry, and unmarshals the document into a fresh  *)
(* instance of the registered struct (decode.go, types.go, objects.go).    *)
(***************************************************************************)
EXTENDS Integers, Sequences, FiniteSets, TLC

VARIABLES
    Registry,   \* registry.go: var Registry, a map[TypeMeta]reflect.Type
    firstReg,   \* history: the type stored by the first successful r[meta] = t of each key
    call,       \* the last registerObject call: its arguments, the map before it, and its result
    pc,         \* where decodeWithRegistry is: "idle", "loop", "done" or "panicked"
    stream,     \* the documents the reader r still holds and has held, in order
    pos,        \* the number of documents dec.Decode has consumed
    objs,       \* decodeWithRegistry's local objs
    ret,        \* the (objs, err) pair decodeWithRegistry returned
    encoded,    \* the instance the stream was encoded from, or NoInstance
    prog        \* who drives: "harness" (any caller), or the shipped program's position

vars == <<Registry, firstReg, call, pc, stream, pos, objs, ret, encoded, prog>>

(***************************************************************************)
(* Bounds                                                                  *)
(***************************************************************************)
\* The longest stream the reader holds.
MaxDocs == 2

(***************************************************************************)
(* types.go: TypeMeta, and the type names used as registry keys            *)
(***************************************************************************)
TypeNames == {"", "Apple", "Banana", "Cherry"}

TypeMeta(name) == [TypeName |-> name]

TypeMetas == {TypeMeta(n) : n \in TypeNames}

(***************************************************************************)
(* reflect.Type, as far as registerObject reads it                         *)
(***************************************************************************)
\* The struct types of objects.go and types.go.
StructTypes == {"Apple", "Banana", "TypeMeta"}

\* A named type whose kind is not struct; its pointer type can carry Type().
NonStructTypes == {"IntObj"}

Named(n) == [Kind |-> IF n \in StructTypes THEN "struct" ELSE "int", Name |-> n]

PtrTo(n) == [Kind |-> "ptr", Name |-> n]

\* t.Elem() of a pointer type.
Elem(t) == Named(t.Name)

\* reflect.TypeOf(nil) is the nil reflect.Type.
NilType == [Kind |-> "nil", Name |-> ""]

\* The dynamic types an Object argument can have: pointers to structs,
\* a pointer to a non-struct, a non-pointer struct value, and the nil interface.
Objects ==
    {PtrTo(n) : n \in StructTypes \cup NonStructTypes}
        \cup {[Kind |-> "struct", Name |-> "ValObj"], NilType}

TypeOf(obj) == obj

(***************************************************************************)
(* Errors: the sentinel errors of registry.go and the fmt.Errorf values,   *)
(* each with the operands its format string carries.                       *)
(***************************************************************************)
Err(kind, name, old, new) == [kind |-> kind, name |-> name, old |-> old, new |-> new]

nil == Err("nil", "", "", "")

errTypeNameMissing == Err("errTypeNameMissing", "", "", "")

errInvalidType == Err("errInvalidType", "", "", "")

\* "Double registration of different types for %v: old=%v.%v, new=%v.%v"
errDoubleRegistration(meta, oldT, t) ==
    Err("DoubleRegistration", meta.TypeName, oldT.Name, t.Name)

(***************************************************************************)
(* registry.go: registerObject                                             *)
(***************************************************************************)
Returned(err, r) == [outcome |-> "return", err |-> err, r |-> r]

\* A nil-pointer dereference: t.Kind() on the nil reflect.Type.
Panicked(r) == [outcome |-> "panic", err |-> nil, r |-> r]

MapSet(r, k, v) == [x \in DOMAIN r \cup {k} |-> IF x = k THEN v ELSE r[x]]

EmptyMap == [x \in {} |-> NilType]

\* A faulty variant: the conflict check is dropped and the entry overwritten.
registerObjectOverwrite(meta, obj, r) ==
    IF meta.TypeName = "" THEN Returned(errTypeNameMissing, r)
    ELSE IF TypeOf(obj) = NilType THEN Panicked(r)
    ELSE IF TypeOf(obj).Kind # "ptr" THEN Returned(errInvalidType, r)
    ELSE IF Elem(TypeOf(obj)).Kind # "struct" THEN Returned(errInvalidType, r)
    ELSE Returned(nil, MapSet(r, meta, Elem(TypeOf(obj))))

\* A faulty variant: the empty-name check comes after the type checks.
registerObjectNameLast(meta, obj, r) ==
    IF TypeOf(obj) = NilType THEN Panicked(r)
    ELSE IF TypeOf(obj).Kind # "ptr" THEN Returned(errInvalidType, r)
    ELSE IF Elem(TypeOf(obj)).Kind # "struct" THEN Returned(errInvalidType, r)
    ELSE IF meta.TypeName = "" THEN Returned(errTypeNameMissing, r)
    ELSE IF meta \in DOMAIN r /\ r[meta] # Elem(TypeOf(obj))
        THEN Returned(errDoubleRegistration(meta, r[meta], Elem(TypeOf(obj))), r)
    ELSE Returned(nil, MapSet(r, meta, Elem(TypeOf(obj))))

\* A faulty variant: the lookup for a conflict comes before the type checks.
registerObjectConflictFirst(meta, obj, r) ==
    IF meta.TypeName = "" THEN Returned(errTypeNameMissing, r)
    ELSE IF TypeOf(obj) = NilType THEN Panicked(r)
    ELSE IF meta \in DOMAIN r /\ r[meta] # Elem(TypeOf(obj))
        THEN Returned(errDoubleRegistration(meta, r[meta], Elem(TypeOf(obj))), r)
    ELSE IF TypeOf(obj).Kind # "ptr" THEN Returned(errInvalidType, r)
    ELSE IF Elem(TypeOf(obj)).Kind # "struct" THEN Returned(errInvalidType, r)
    ELSE Returned(nil, MapSet(r, meta, Elem(TypeOf(obj))))

\* A faulty variant: the empty-name check is missing.
registerObjectNoNameCheck(meta, obj, r) ==
    IF TypeOf(obj) = NilType THEN Panicked(r)
    ELSE IF TypeOf(obj).Kind # "ptr" THEN Returned(errInvalidType, r)
    ELSE IF Elem(TypeOf(obj)).Kind # "struct" THEN Returned(errInvalidType, r)
    ELSE IF meta \in DOMAIN r /\ r[meta] # Elem(TypeOf(obj))
        THEN Returned(errDoubleRegistration(meta, r[meta], Elem(TypeOf(obj))), r)
    ELSE Returned(nil, MapSet(r, meta, Elem(TypeOf(obj))))

\* A faulty variant: a registered key is a conflict whatever type it maps to.
registerObjectAlwaysConflict(meta, obj, r) ==
    IF meta.TypeName = "" THEN Returned(errTypeNameMissing, r)
    ELSE IF TypeOf(obj) = NilType THEN Panicked(r)
    ELSE IF TypeOf(obj).Kind # "ptr" THEN Returned(errInvalidType, r)
    ELSE IF Elem(TypeOf(obj)).Kind # "struct" THEN Returned(errInvalidType, r)
    ELSE IF meta \in DOMAIN r
        THEN Returned(errDoubleRegistration(meta, r[meta], Elem(TypeOf(obj))), r)
    ELSE Returned(nil, MapSet(r, meta, Elem(TypeOf(obj))))

\* A faulty variant: t = t.Elem() is left out and the pointer type is stored.
registerObjectStoresPointer(meta, obj, r) ==
    IF meta.TypeName = "" THEN Returned(errTypeNameMissing, r)
    ELSE IF TypeOf(obj) = NilType THEN Panicked(r)
    ELSE IF TypeOf(obj).Kind # "ptr" THEN Returned(errInvalidType, r)
    ELSE IF Elem(TypeOf(obj)).Kind # "struct" THEN Returned(errInvalidType, r)
    ELSE IF meta \in DOMAIN r /\ r[meta] # TypeOf(obj)
        THEN Returned(errDoubleRegistration(meta, r[meta], TypeOf(obj)), r)
    ELSE Returned(nil, MapSet(r, meta, TypeOf(obj)))

registerObject(meta, obj, r) ==
    IF meta.TypeName = "" THEN Returned(errTypeNameMissing, r)
    ELSE IF TypeOf(obj) = NilType THEN Panicked(r)
    ELSE IF TypeOf(obj).Kind # "ptr" THEN Returned(errInvalidType, r)
    ELSE IF Elem(TypeOf(obj)).Kind # "struct" THEN Returned(errInvalidType, r)
    ELSE IF meta \in DOMAIN r /\ r[meta] # Elem(TypeOf(obj))
        THEN Returned(errDoubleRegistration(meta, r[meta], Elem(TypeOf(obj))), r)
    ELSE Returned(nil, MapSet(r, meta, Elem(TypeOf(obj))))

(***************************************************************************)
(* registry.go: MustRegisterObject                                         *)
(***************************************************************************)
\* registerObject(meta, obj, Registry); an error is a panic, and a panic inside
\* registerObject is not recovered.
MustRegisterObject(meta, obj, reg) ==
    LET res == registerObject(meta, obj, reg)
    IN  IF res.outcome = "panic" \/ res.err # nil
        THEN [outcome |-> "panic", inner |-> res, r |-> res.r]
        ELSE [outcome |-> "return", inner |-> res, r |-> res.r]

(***************************************************************************)
(* JSON documents, as the YAMLOrJSONDecoder hands them over in raw         *)
(***************************************************************************)
JStr(s) == [k |-> "string", s |-> s]

JNum(s) == [k |-> "number", s |-> s]

JBool(b) == [k |-> "bool", s |-> IF b THEN "true" ELSE "false"]

JNull == [k |-> "null", s |-> ""]

NoFields == [x \in {} |-> JNull]

\* A JSON object with the given members.
JObject(fields) == [form |-> "object", fields |-> fields]

\* The JSON value null (the YAML document ~) and a JSON array.
JNullDoc == [form |-> "null", fields |-> NoFields]

JArrayDoc == [form |-> "array", fields |-> NoFields]

\* Bytes the decoder cannot turn into JSON: dec.Decode returns a non-EOF error.
Garbage == [form |-> "garbage", fields |-> NoFields]

\* The documents a stream is made of: the two of main.go's input, the
\* unregistered Cherry, and documents that fail in each pass or carry no tag.
Docs ==
    { JObject([type_name |-> JStr("Apple"), color |-> JStr("Red")]),
      JObject([type_name |-> JStr("Banana"), ripe |-> JBool(TRUE)]),
      JObject([type_name |-> JStr("Cherry"), size |-> JStr("small")]),
      JObject([type_name |-> JStr("Apple")]),
      JObject([type_name |-> JStr("Apple"), color |-> JNum("5")]),
      JObject([type_name |-> JStr("Banana"), ripe |-> JNull]),
      JObject([type_name |-> JNum("5")]),
      JObject([type_name |-> JStr("")]),
      JObject([color |-> JStr("Red")]),
      JNullDoc,
      JArrayDoc,
      Garbage }

RECURSIVE SeqsUpTo(_, _)
\* The sequences over S of length at most n.
SeqsUpTo(S, n) ==
    IF n = 0 THEN {<< >>}
    ELSE LET shorter == SeqsUpTo(S, n - 1)
         IN  shorter \cup {Append(q, d) : q \in {x \in shorter : Len(x) = n - 1}, d \in S}

(***************************************************************************)
(* objects.go, types.go: the struct types and their json tags              *)
(***************************************************************************)
Field(go, key, kind, omitempty) ==
    [go |-> go, key |-> key, kind |-> kind, omitempty |-> omitempty]

\* TypeMeta.TypeName `json:"type_name,omitempty"`
TypeNameField == Field("TypeName", "type_name", "string", TRUE)

\* The fields encoding/json sees, the embedded TypeMeta's promoted.
StructFields(type) ==
    CASE type = "TypeMeta" -> {TypeNameField}
      [] type = "Apple" -> {TypeNameField, Field("Color", "color", "string", FALSE)}
      [] type = "Banana" -> {TypeNameField, Field("Ripe", "ripe", "bool", FALSE)}

ZeroOf(kind) == IF kind = "string" THEN "" ELSE FALSE

\* The zero value of a struct type.
ZeroValue(type) ==
    [g \in {f.go : f \in StructFields(type)} |->
        ZeroOf((CHOOSE f \in StructFields(type) : f.go = g).kind)]

\* reflect.New(t): a pointer to a fresh zero value.
New(t, addr) == [type |-> t.Name, addr |-> addr, val |-> ZeroValue(t.Name)]

\* func (obj *TypeMeta) Type() TypeMeta, promoted to every struct embedding TypeMeta.
Type(obj) == TypeMeta(obj.val.TypeName)

(***************************************************************************)
(* encoding/json, as far as the struct tags above decide it                *)
(***************************************************************************)
\* A Go string holding a byte sequence that is not valid UTF-8, and what
\* encoding/json turns it into: each invalid byte becomes U+FFFD.
InvalidUTF8 == "<ff>"

ReplacementChar == "<U+FFFD>"

CoerceUTF8(s) == IF s = InvalidUTF8 THEN ReplacementChar ELSE s

\* The Go value a JSON value of the field's kind decodes to.
FromJSON(j) == IF j.k = "bool" THEN j.s = "true" ELSE CoerceUTF8(j.s)

\* The JSON value a Go value of the field's kind encodes to.
ToJSON(kind, v) == IF kind = "bool" THEN JBool(v) ELSE JStr(CoerceUTF8(v))

\* Whether JSON value j can be stored in a field of the given kind.
Fits(j, kind) == j.k = kind

\* A faulty variant: the fields promoted from the embedded TypeMeta are not
\* populated, only the struct's own.
UnmarshalOwnFields(doc, type, val) ==
    IF doc.form = "null" THEN [err |-> FALSE, val |-> val]
    ELSE IF doc.form # "object" THEN [err |-> TRUE, val |-> val]
    ELSE LET own == IF type = "TypeMeta" THEN StructFields(type)
                    ELSE StructFields(type) \ {TypeNameField}
             present == {f \in own : f.key \in DOMAIN doc.fields}
             bad == {f \in present :
                        /\ doc.fields[f.key].k # "null"
                        /\ ~Fits(doc.fields[f.key], f.kind)}
             set == {f \in present : Fits(doc.fields[f.key], f.kind)}
         IN  [err |-> bad # {},
              val |-> [g \in DOMAIN val |->
                        IF \E f \in set : f.go = g
                        THEN FromJSON(doc.fields[(CHOOSE f \in set : f.go = g).key])
                        ELSE val[g]]]

\* json.Unmarshal(doc, &v) for a struct v of the given type: members are
\* matched by key, null leaves a field alone, unknown keys are skipped, and a
\* member of the wrong JSON kind is an UnmarshalTypeError.
Unmarshal(doc, type, val) ==
    IF doc.form = "null" THEN [err |-> FALSE, val |-> val]
    ELSE IF doc.form # "object" THEN [err |-> TRUE, val |-> val]
    ELSE LET present == {f \in StructFields(type) : f.key \in DOMAIN doc.fields}
             bad == {f \in present :
                        /\ doc.fields[f.key].k # "null"
                        /\ ~Fits(doc.fields[f.key], f.kind)}
             set == {f \in present : Fits(doc.fields[f.key], f.kind)}
         IN  [err |-> bad # {},
              val |-> [g \in DOMAIN val |->
                        IF \E f \in set : f.go = g
                        THEN FromJSON(doc.fields[(CHOOSE f \in set : f.go = g).key])
                        ELSE val[g]]]

\* json.Marshal(v): one member per field, an omitempty field dropped when zero.
Marshal(v) ==
    LET kept == {f \in StructFields(v.type) :
                    ~(f.omitempty /\ v.val[f.go] = ZeroOf(f.kind))}
    IN  JObject([key \in {f.key : f \in kept} |->
            LET f == CHOOSE f \in kept : f.key = key
            IN  ToJSON(f.kind, v.val[f.go])])

(***************************************************************************)
(* decode.go: findObject                                                   *)
(***************************************************************************)
NoObject == [type |-> "", addr |-> 0, val |-> ZeroValue("TypeMeta")]

\* The envelope pass: var meta TypeMeta; json.Unmarshal(data, &meta).
Envelope(data) == Unmarshal(data, "TypeMeta", ZeroValue("TypeMeta"))

\* The failed type assertion .(Object), a panic.
errNotAnObject == Err("panic", "", "", "")

\* Whether reflect.New(t).Interface() is an Object: t is a named type whose
\* pointer type has the method Type().
NewIsObject(t) ==
    /\ t.Kind \in {"struct", "int"}
    /\ t.Name \in StructTypes \cup NonStructTypes \cup {"ValObj"}

\* A faulty variant: a tag with no registered type falls back to a bare TypeMeta.
findObjectFallback(data, reg, addr) ==
    LET env == Envelope(data)
        meta == TypeMeta(env.val.TypeName)
    IN  IF env.err
            THEN [err |-> Err("jsonParse", "", "", ""), obj |-> NoObject]
        ELSE IF meta \notin DOMAIN reg
            THEN [err |-> nil, obj |-> New(Named("TypeMeta"), addr)]
        ELSE [err |-> nil, obj |-> New(reg[meta], addr)]

findObject(data, reg, addr) ==
    LET env == Envelope(data)
        meta == TypeMeta(env.val.TypeName)
    IN  IF env.err
            THEN [err |-> Err("jsonParse", "", "", ""), obj |-> NoObject]
        ELSE IF meta \notin DOMAIN reg
            THEN [err |-> Err("noRegisteredType", meta.TypeName, "", ""), obj |-> NoObject]
        ELSE IF ~NewIsObject(reg[meta])
            THEN [err |-> errNotAnObject, obj |-> NoObject]
        ELSE [err |-> nil, obj |-> New(reg[meta], addr)]

(***************************************************************************)
(* decode.go: one iteration of decodeWithRegistry's loop on a document     *)
(***************************************************************************)
\* A faulty variant: the full pass is left out and the new instance returned as it is.
decodeDocumentNoFullPass(raw, reg, addr) == findObject(raw, reg, addr)

\* findObject(raw, reg), then json.Unmarshal(raw, &obj) into the new instance.
decodeDocument(raw, reg, addr) ==
    LET found == findObject(raw, reg, addr)
        full == Unmarshal(raw, found.obj.type, found.obj.val)
    IN  IF found.err # nil THEN found
        ELSE IF full.err
            THEN [err |-> Err("unableToUnmarshal", "", "", ""), obj |-> NoObject]
        ELSE [err |-> nil, obj |-> [found.obj EXCEPT !.val = full.val]]

(***************************************************************************)
(* State                                                                   *)
(***************************************************************************)
NoCall == [made |-> FALSE]

NoInstance == [type |-> "", val |-> ZeroValue("TypeMeta")]

NoReturn == [objs |-> << >>, err |-> nil]

\* The streams a caller hands to Decode.
Streams == SeqsUpTo(Docs, MaxDocs)

\* The values of a struct type whose embedded TypeMeta is meta.
Instances(type, meta) ==
    CASE type = "TypeMeta" ->
            {[type |-> type, val |-> [TypeName |-> meta.TypeName]]}
      [] type = "Apple" ->
            {[type |-> type, val |-> [TypeName |-> meta.TypeName, Color |-> c]] :
                c \in {"", "Red", InvalidUTF8}}
      [] type = "Banana" ->
            {[type |-> type, val |-> [TypeName |-> meta.TypeName, Ripe |-> b]] :
                b \in BOOLEAN}

Init ==
    /\ Registry = EmptyMap
    /\ firstReg = EmptyMap
    /\ call = NoCall
    /\ pc = "idle"
    /\ stream = << >>
    /\ pos = 0
    /\ objs = << >>
    /\ ret = NoReturn
    /\ encoded = NoInstance
    /\ prog \in {"harness", "init"}

(***************************************************************************)
(* Actions                                                                 *)
(***************************************************************************)
\* A call registerObject(meta, obj, Registry), as MustRegisterObject makes it.
Register ==
    /\ prog = "harness"
    /\ pc = "idle"
    /\ \E meta \in TypeMetas, obj \in Objects :
        LET res == registerObject(meta, obj, Registry)
        IN  /\ Registry' = res.r
            /\ firstReg' =
                IF res.outcome = "return" /\ res.err = nil /\ meta \notin DOMAIN firstReg
                THEN MapSet(firstReg, meta, Elem(TypeOf(obj)))
                ELSE firstReg
            /\ call' = [made |-> TRUE, via |-> "registerObject", must |-> "none",
                        meta |-> meta, obj |-> obj, before |-> Registry,
                        outcome |-> res.outcome, err |-> res.err]
    /\ UNCHANGED <<pc, stream, pos, objs, ret, encoded, prog>>

\* A call MustRegisterObject(meta, obj).
MustRegister ==
    /\ prog = "harness"
    /\ pc = "idle"
    /\ \E meta \in TypeMetas, obj \in Objects :
        LET res == MustRegisterObject(meta, obj, Registry)
        IN  /\ Registry' = res.r
            /\ firstReg' =
                IF /\ res.inner.outcome = "return"
                   /\ res.inner.err = nil
                   /\ meta \notin DOMAIN firstReg
                THEN MapSet(firstReg, meta, Elem(TypeOf(obj)))
                ELSE firstReg
            /\ call' = [made |-> TRUE, via |-> "MustRegisterObject", must |-> res.outcome,
                        meta |-> meta, obj |-> obj, before |-> Registry,
                        outcome |-> res.inner.outcome, err |-> res.inner.err]
    /\ UNCHANGED <<pc, stream, pos, objs, ret, encoded, prog>>

\* Decode(r): decodeWithRegistry(r, Registry) starts on a stream.
DecodeStart ==
    /\ prog = "harness"
    /\ pc = "idle"
    /\ \E s \in Streams : stream' = s
    /\ encoded' = NoInstance
    /\ pc' = "loop"
    /\ pos' = 0
    /\ objs' = << >>
    /\ ret' = NoReturn
    /\ call' = NoCall
    /\ UNCHANGED <<Registry, firstReg, prog>>

\* Decode on the one-document stream an instance of a registered type marshals to.
DecodeStartEncoded ==
    /\ prog = "harness"
    /\ pc = "idle"
    /\ \E meta \in DOMAIN Registry :
        \E v \in Instances(Registry[meta].Name, meta) :
            /\ stream' = <<Marshal(v)>>
            /\ encoded' = v
    /\ pc' = "loop"
    /\ pos' = 0
    /\ objs' = << >>
    /\ ret' = NoReturn
    /\ call' = NoCall
    /\ UNCHANGED <<Registry, firstReg, prog>>

\* A faulty variant: io.EOF is not told apart from the other read errors.
DecodeEOFIsError ==
    /\ pc = "loop"
    /\ pos = Len(stream)
    /\ ret' = [objs |-> << >>, err |-> Err("unableToDecode", "", "", "")]
    /\ pc' = "done"
    /\ UNCHANGED <<Registry, firstReg, call, stream, pos, objs, encoded, prog>>

\* dec.Decode(&raw) returns io.EOF: break, return objs, nil.
DecodeEOF ==
    /\ pc = "loop"
    /\ pos = Len(stream)
    /\ ret' = [objs |-> objs, err |-> nil]
    /\ pc' = "done"
    /\ UNCHANGED <<Registry, firstReg, call, stream, pos, objs, encoded, prog>>

\* dec.Decode(&raw) returns another error: return nil, "unable to decode object".
DecodeReadError ==
    /\ pc = "loop"
    /\ pos < Len(stream)
    /\ stream[pos + 1] = Garbage
    /\ pos' = pos + 1
    /\ ret' = [objs |-> << >>, err |-> Err("unableToDecode", "", "", "")]
    /\ pc' = "done"
    /\ UNCHANGED <<Registry, firstReg, call, stream, objs, encoded, prog>>

\* A faulty variant: on an error the objects decoded so far are returned with it.
DecodeDocumentPartial ==
    /\ pc = "loop"
    /\ pos < Len(stream)
    /\ stream[pos + 1] # Garbage
    /\ pos' = pos + 1
    /\ LET res == decodeDocument(stream[pos + 1], Registry, pos + 1)
       IN  IF res.err # nil
           THEN /\ ret' = [objs |-> objs, err |-> res.err]
                /\ pc' = "done"
                /\ UNCHANGED objs
           ELSE /\ objs' = Append(objs, res.obj)
                /\ UNCHANGED <<ret, pc>>
    /\ UNCHANGED <<Registry, firstReg, call, stream, encoded, prog>>

\* A faulty variant: the new object is put in front of objs.
DecodeDocumentPrepend ==
    /\ pc = "loop"
    /\ pos < Len(stream)
    /\ stream[pos + 1] # Garbage
    /\ pos' = pos + 1
    /\ LET res == decodeDocument(stream[pos + 1], Registry, pos + 1)
       IN  IF res.err # nil
           THEN /\ ret' = [objs |-> << >>, err |-> res.err]
                /\ pc' = "done"
                /\ UNCHANGED objs
           ELSE /\ objs' = <<res.obj>> \o objs
                /\ UNCHANGED <<ret, pc>>
    /\ UNCHANGED <<Registry, firstReg, call, stream, encoded, prog>>

\* A faulty variant: looking up a tag that is not registered inserts it, with
\* the zero reflect.Type.
DecodeDocumentLookupInserts ==
    /\ pc = "loop"
    /\ pos < Len(stream)
    /\ stream[pos + 1] # Garbage
    /\ pos' = pos + 1
    /\ LET res == decodeDocument(stream[pos + 1], Registry, pos + 1)
       IN  /\ IF res.err # nil
              THEN /\ ret' = [objs |-> << >>, err |-> res.err]
                   /\ pc' = "done"
                   /\ UNCHANGED objs
              ELSE /\ objs' = Append(objs, res.obj)
                   /\ UNCHANGED <<ret, pc>>
           /\ Registry' = IF res.err.kind = "noRegisteredType"
                           THEN MapSet(Registry, TypeMeta(res.err.name), NilType)
                           ELSE Registry
    /\ UNCHANGED <<firstReg, call, stream, encoded, prog>>

\* dec.Decode(&raw) returns a document: find its type, unmarshal it, append it;
\* an error in either pass returns nil and the error, a panic ends the call.
DecodeDocument ==
    /\ pc = "loop"
    /\ pos < Len(stream)
    /\ stream[pos + 1] # Garbage
    /\ pos' = pos + 1
    /\ \E res \in {decodeDocument(stream[pos + 1], Registry, pos + 1)} :
           IF res.err = errNotAnObject
           THEN /\ pc' = "panicked"
                /\ UNCHANGED <<ret, objs>>
           ELSE IF res.err # nil
           THEN /\ ret' = [objs |-> << >>, err |-> res.err]
                /\ pc' = "done"
                /\ UNCHANGED objs
           ELSE /\ objs' = Append(objs, res.obj)
                /\ UNCHANGED <<ret, pc>>
    /\ UNCHANGED <<Registry, firstReg, call, stream, encoded, prog>>

\* The caller has taken Decode's result; the call's locals are gone.
DecodeReturn ==
    /\ prog = "harness"
    /\ pc = "done"
    /\ pc' = "idle"
    /\ stream' = << >>
    /\ pos' = 0
    /\ objs' = << >>
    /\ ret' = NoReturn
    /\ encoded' = NoInstance
    /\ UNCHANGED <<Registry, firstReg, call, prog>>

(***************************************************************************)
(* The shipped program: objects.go's init, then main.go's main             *)
(***************************************************************************)
AppleTypeMeta == TypeMeta("Apple")

BananaTypeMeta == TypeMeta("Banana")

\* main.go: const input, two YAML documents.
input ==
    << JObject([type_name |-> JStr("Apple"), color |-> JStr("Red")]),
       JObject([type_name |-> JStr("Banana"), ripe |-> JBool(TRUE)]) >>

\* One MustRegisterObject(meta, obj) of init, the program moving on to next
\* unless the call panics.
InitRegister(meta, obj, next) ==
    LET res == MustRegisterObject(meta, obj, Registry)
    IN  /\ Registry' = res.r
        /\ firstReg' =
            IF /\ res.inner.outcome = "return"
               /\ res.inner.err = nil
               /\ meta \notin DOMAIN firstReg
            THEN MapSet(firstReg, meta, Elem(TypeOf(obj)))
            ELSE firstReg
        /\ call' = [made |-> TRUE, via |-> "MustRegisterObject", must |-> res.outcome,
                    meta |-> meta, obj |-> obj, before |-> Registry,
                    outcome |-> res.inner.outcome, err |-> res.inner.err]
        /\ prog' = IF res.outcome = "panic" THEN "panicked" ELSE next
        /\ UNCHANGED <<pc, stream, pos, objs, ret, encoded>>

\* init: MustRegisterObject(AppleTypeMeta, &Apple{})
InitApple ==
    /\ prog = "init"
    /\ InitRegister(AppleTypeMeta, PtrTo("Apple"), "init2")

\* A faulty variant: the second registration passes &Apple{} again.
InitBananaRegistersApple ==
    /\ prog = "init2"
    /\ InitRegister(BananaTypeMeta, PtrTo("Apple"), "main")

\* init: MustRegisterObject(BananaTypeMeta, &Banana{}); main runs after init.
InitBanana ==
    /\ prog = "init2"
    /\ InitRegister(BananaTypeMeta, PtrTo("Banana"), "main")

\* main: Decode(strings.NewReader(input))
MainDecode ==
    /\ prog = "main"
    /\ pc = "idle"
    /\ stream' = input
    /\ pc' = "loop"
    /\ pos' = 0
    /\ objs' = << >>
    /\ ret' = NoReturn
    /\ prog' = "decoding"
    /\ UNCHANGED <<Registry, firstReg, call, encoded>>

\* main: log.Fatalf on an error, else print the objects and return.
MainFinish ==
    /\ prog = "decoding"
    /\ pc = "done"
    /\ prog' = IF ret.err # nil THEN "fatal" ELSE "exit"
    /\ UNCHANGED <<Registry, firstReg, call, pc, stream, pos, objs, ret, encoded>>

Next ==
    \/ InitApple
    \/ InitBanana
    \/ MainDecode
    \/ MainFinish
    \/ Register
    \/ MustRegister
    \/ DecodeStart
    \/ DecodeStartEncoded
    \/ DecodeEOF
    \/ DecodeReadError
    \/ DecodeDocument
    \/ DecodeReturn

Spec == Init /\ [][Next]_vars

\* The registry r after registerObject(TypeMeta{name}, &t{}, r).
Registered(r, name, t) == registerObject(TypeMeta(name), PtrTo(t), r).r

\* Registries decodeWithRegistry is handed: the empty one, objects.go's after
\* its first and after its second registration, and one whose keys name other
\* types than their own.
Registries ==
    {EmptyMap,
     Registered(EmptyMap, "Apple", "Apple"),
     Registered(Registered(EmptyMap, "Apple", "Apple"), "Banana", "Banana"),
     Registered(Registered(EmptyMap, "Banana", "Apple"), "Cherry", "TypeMeta")}

\* decodeWithRegistry's registry argument, before any call.
DecodeInit ==
    /\ Registry \in Registries
    /\ firstReg = Registry
    /\ call = NoCall
    /\ pc = "idle"
    /\ stream = << >>
    /\ pos = 0
    /\ objs = << >>
    /\ ret = NoReturn
    /\ encoded = NoInstance
    /\ prog = "harness"

DecodeNext ==
    \/ DecodeStart
    \/ DecodeStartEncoded
    \/ DecodeEOF
    \/ DecodeReadError
    \/ DecodeDocument
    \/ DecodeReturn

\* A Decode call that has started keeps running: the loop is sequential code
\* with nothing to wait for but the reader.
FairSpec ==
    /\ DecodeInit
    /\ [][DecodeNext]_vars
    /\ WF_vars(DecodeEOF \/ DecodeReadError \/ DecodeDocument)

(***************************************************************************)
(* Properties of registerObject                                            *)
(***************************************************************************)
\* The argument is a pointer to a struct.
ValidShape(obj) == obj.Kind = "ptr" /\ obj.Name \in StructTypes

\* The argument is a non-pointer value or a pointer to a non-struct.
InvalidShape(obj) == obj # NilType /\ ~ValidShape(obj)

\* C1: registering a tag that is already registered to a different struct type
\* returns the double-registration error naming the tag, the registered type and
\* the attempted type, and leaves the registry as it was.
C1_ConflictRejected ==
    (/\ call.made
     /\ call.meta.TypeName # ""
     /\ ValidShape(call.obj)
     /\ call.meta \in DOMAIN call.before
     /\ call.before[call.meta] # Elem(call.obj))
    => /\ call.outcome = "return"
       /\ call.err.kind = "DoubleRegistration"
       /\ call.err.name = call.meta.TypeName
       /\ call.err.old = firstReg[call.meta].Name
       /\ call.err.new = call.obj.Name
       /\ call.err.old # call.err.new
       /\ Registry = call.before
       /\ Registry[call.meta] = firstReg[call.meta]

C1_Witness ==
    /\ call.made
    /\ call.meta = TypeMeta("Apple")
    /\ call.obj = PtrTo("Banana")
    /\ call.meta \in DOMAIN call.before
    /\ call.before[call.meta] = Named("Apple")
    /\ call.err.kind = "DoubleRegistration"
    /\ Cardinality(DOMAIN Registry) > 1

\* C2: registering a tag again with the struct type it is registered to
\* returns no error and leaves the registry as it was.
C2_ReRegistrationIdempotent ==
    (/\ call.made
     /\ call.meta.TypeName # ""
     /\ ValidShape(call.obj)
     /\ call.meta \in DOMAIN call.before
     /\ call.before[call.meta] = Elem(call.obj))
    => /\ call.outcome = "return"
       /\ call.err = nil
       /\ Registry = call.before

C2_Witness ==
    /\ call.made
    /\ call.meta = TypeMeta("Apple")
    /\ call.obj = PtrTo("Apple")
    /\ call.meta \in DOMAIN call.before
    /\ call.before[call.meta] = Named("Apple")
    /\ call.err = nil
    /\ Registry = call.before

\* C3: a call with an empty type name returns errTypeNameMissing, whatever the
\* object and whatever the registry holds, and leaves the registry as it was.
C3_MissingNameRejected ==
    (call.made /\ call.meta.TypeName = "")
    => /\ call.outcome = "return"
       /\ call.err = errTypeNameMissing
       /\ Registry = call.before

C3_Witness ==
    /\ call.made
    /\ call.meta.TypeName = ""
    /\ InvalidShape(call.obj)
    /\ call.before # EmptyMap
    /\ call.err = errTypeNameMissing

\* C4: a call with a non-empty type name and an object that is not a pointer to
\* a struct returns errInvalidType and leaves the registry as it was, also when
\* the tag is already registered.
C4_InvalidShapeRejected ==
    (call.made /\ call.meta.TypeName # "" /\ InvalidShape(call.obj))
    => /\ call.outcome = "return"
       /\ call.err = errInvalidType
       /\ Registry = call.before

C4_Witness ==
    /\ call.made
    /\ call.meta \in DOMAIN call.before
    /\ call.obj = PtrTo("IntObj")
    /\ call.err = errInvalidType

\* The registry holds no empty type name, and each key maps to the struct type
\* of the first successful registration of that key.
RegistryInv ==
    /\ TypeMeta("") \notin DOMAIN Registry
    /\ DOMAIN Registry = DOMAIN firstReg
    /\ \A k \in DOMAIN Registry : Registry[k] = firstReg[k] /\ Registry[k].Kind = "struct"

\* A key of the registry stays, mapped to the same type.
RegistryStable ==
    \A k \in DOMAIN Registry : k \in DOMAIN Registry' /\ Registry'[k] = Registry[k]

\* C5: from the empty registry, after any sequence of registerObject calls the
\* registry has no key with an empty type name, each key maps to the type of
\* its first successful registration, and no step removes or remaps a key.
C5_RegistryInvariant == []RegistryInv /\ [][RegistryStable]_vars

C5_Witness ==
    /\ call.made
    /\ call.outcome = "return"
    /\ call.err # nil
    /\ Cardinality(DOMAIN Registry) = 3
    /\ Registry[TypeMeta("Cherry")] = Named("Apple")

(***************************************************************************)
(* Properties of Decode, stated on the documents themselves                *)
(***************************************************************************)
\* The document is one the envelope pass reads a tag from: JSON null or an
\* object whose type_name, if it has one, is a string or null.
HasTag(doc) ==
    \/ doc.form = "null"
    \/ /\ doc.form = "object"
       /\ "type_name" \in DOMAIN doc.fields => doc.fields["type_name"].k \in {"string", "null"}

\* The tag the document carries: its type_name, empty when it has none.
TagOf(doc) ==
    IF /\ doc.form = "object"
       /\ "type_name" \in DOMAIN doc.fields
       /\ doc.fields["type_name"].k = "string"
    THEN TypeMeta(doc.fields["type_name"].s)
    ELSE TypeMeta("")

\* The document carries a tag the registry has no key for.
UnknownTag(doc) == doc # Garbage /\ HasTag(doc) /\ TagOf(doc) \notin DOMAIN Registry

\* Every member the registered struct type has a field for is of that field's kind.
FieldsFit(doc, type) ==
    \A f \in StructFields(type) :
        (doc.form = "object" /\ f.key \in DOMAIN doc.fields)
            => doc.fields[f.key].k \in {f.kind, "null"}

\* The document is well-formed and its tag is registered.
WellFormed(doc) ==
    /\ doc # Garbage
    /\ HasTag(doc)
    /\ TagOf(doc) \in DOMAIN Registry
    /\ FieldsFit(doc, Registry[TagOf(doc)].Name)

\* The error the document raises when the loop reaches it.
DocError(doc) ==
    IF doc = Garbage THEN Err("unableToDecode", "", "", "")
    ELSE IF ~HasTag(doc) THEN Err("jsonParse", "", "", "")
    ELSE IF TagOf(doc) \notin DOMAIN Registry
        THEN Err("noRegisteredType", TagOf(doc).TypeName, "", "")
    ELSE IF ~FieldsFit(doc, Registry[TagOf(doc)].Name)
        THEN Err("unableToUnmarshal", "", "", "")
    ELSE nil

\* The value of a struct type a well-formed document populates.
Populated(type, doc) ==
    [g \in DOMAIN ZeroValue(type) |->
        LET f == CHOOSE f \in StructFields(type) : f.go = g
        IN  IF /\ doc.form = "object"
               /\ f.key \in DOMAIN doc.fields
               /\ doc.fields[f.key].k # "null"
            THEN (IF f.kind = "bool" THEN doc.fields[f.key].s = "true"
                                     ELSE doc.fields[f.key].s)
            ELSE ZeroOf(f.kind)]

Failing == {i \in 1..Len(stream) : DocError(stream[i]) # nil}

FirstFailing == CHOOSE i \in Failing : \A j \in Failing : i <= j

\* The document is an object with a type_name string of its own.
NamesType(doc) ==
    /\ doc.form = "object"
    /\ "type_name" \in DOMAIN doc.fields
    /\ doc.fields["type_name"].k = "string"

\* C6 as stated: whenever some document of the stream carries an unregistered
\* tag, Decode returns the unknown-type error naming that tag and no objects.
C6_UnknownTagAlwaysNamed ==
    pc = "done" =>
        \A i \in 1..Len(stream) :
            (NamesType(stream[i]) /\ UnknownTag(stream[i])) =>
                /\ ret.err = Err("noRegisteredType", TagOf(stream[i]).TypeName, "", "")
                /\ ret.objs = << >>

\* C6, amended: whenever some document of the stream carries an unregistered
\* tag, Decode returns an error and no objects; when every document before it
\* is well-formed with a registered tag, the error is the unknown-type error
\* naming that document's tag, whatever the documents after it are.
C6_UnknownTagFails ==
    pc = "done" =>
        \A i \in 1..Len(stream) :
            UnknownTag(stream[i]) =>
                /\ ret.err # nil
                /\ ret.objs = << >>
                /\ (\A j \in 1..(i - 1) : WellFormed(stream[j])) =>
                        /\ ret.err = Err("noRegisteredType", TagOf(stream[i]).TypeName, "", "")
                        /\ pos = i

C6_Witness ==
    /\ pc = "done"
    /\ Len(stream) = 2
    /\ TypeMeta("Apple") \in DOMAIN Registry
    /\ TypeMeta("Cherry") \notin DOMAIN Registry
    /\ TagOf(stream[1]) = TypeMeta("Cherry")
    /\ WellFormed(stream[2])
    /\ ret.err = Err("noRegisteredType", "Cherry", "", "")
    /\ ret.objs = << >>

\* C7: Decode returns either all objects and no error or no objects and an
\* error; the error is the one of the earliest failing document of the stream,
\* and no document after that one is read.
C7_AllOrNothing ==
    /\ pc = "loop" => Len(objs) = pos /\ \A i \in 1..pos : i \notin Failing
    /\ pc = "done" =>
        /\ ret.err = nil \/ ret.objs = << >>
        /\ IF Failing = {}
           THEN /\ ret.err = nil
                /\ Len(ret.objs) = Len(stream)
                /\ pos = Len(stream)
           ELSE /\ ret.err = DocError(stream[FirstFailing])
                /\ ret.objs = << >>
                /\ pos = FirstFailing

C7_Witness ==
    /\ pc = "done"
    /\ Len(stream) = 2
    /\ WellFormed(stream[1])
    /\ DocError(stream[2]).kind = "unableToUnmarshal"
    /\ Len(objs) = 1
    /\ ret.objs = << >>
    /\ ret.err.kind = "unableToUnmarshal"

\* C8: when every document of the stream is well-formed with a registered
\* tag, Decode returns no error and one object per document, in stream order:
\* the i-th is a new instance of the type registered for the i-th document's
\* tag, populated from the i-th document; an empty stream gives no objects.
C8_OrderPreserved ==
    (pc = "done" /\ \A i \in 1..Len(stream) : WellFormed(stream[i])) =>
        /\ ret.err = nil
        /\ Len(ret.objs) = Len(stream)
        /\ \A i \in 1..Len(stream) :
            /\ i <= Len(ret.objs)
            /\ ret.objs[i].type = Registry[TagOf(stream[i])].Name
            /\ ret.objs[i].val = Populated(ret.objs[i].type, stream[i])
            /\ \A j \in 1..Len(ret.objs) : j # i => ret.objs[j].addr # ret.objs[i].addr

C8_Witness ==
    /\ pc = "done"
    /\ Registry = (TypeMeta("Apple") :> Named("Apple")) @@ (TypeMeta("Banana") :> Named("Banana"))
    /\ stream = << JObject([type_name |-> JStr("Apple"), color |-> JStr("Red")]),
                   JObject([type_name |-> JStr("Banana"), ripe |-> JBool(TRUE)]) >>
    /\ ret.err = nil
    /\ Len(ret.objs) = 2
    /\ ret.objs[1].type = "Apple" /\ ret.objs[1].val.Color = "Red"
    /\ ret.objs[2].type = "Banana" /\ ret.objs[2].val.Ripe = TRUE

\* Every string field of the instance holds valid UTF-8.
ValidStrings(v) ==
    \A f \in StructFields(v.type) : f.kind = "string" => v.val[f.go] # InvalidUTF8

\* C9 as stated: decoding the one-document stream any instance of a registered
\* struct type marshals to returns exactly one object, equal to the instance.
C9_RoundTripEveryInstance ==
    (pc = "done" /\ encoded # NoInstance) =>
        /\ ret.err = nil
        /\ Len(ret.objs) = 1
        /\ ret.objs[1].type = encoded.type
        /\ ret.objs[1].val = encoded.val

\* C9, amended: decoding the one-document stream an instance of a registered
\* struct type marshals to, its embedded tag the key it is registered under
\* and its strings valid UTF-8, returns no error and exactly one object, equal
\* to the instance in every field, the embedded tag included.
C9_RoundTrip ==
    (pc = "done" /\ encoded # NoInstance /\ ValidStrings(encoded)) =>
        /\ ret.err = nil
        /\ Len(ret.objs) = 1
        /\ ret.objs[1].type = encoded.type
        /\ ret.objs[1].val = encoded.val
        /\ Type(ret.objs[1]) = TypeMeta(encoded.val.TypeName)

C9_Witness ==
    /\ pc = "done"
    /\ encoded = [type |-> "Apple", val |-> [TypeName |-> "Apple", Color |-> "Red"]]
    /\ Registry[TypeMeta("Apple")] = Named("Apple")
    /\ Len(ret.objs) = 1
    /\ ret.objs[1].val = encoded.val

\* C10: every object a successful Decode returns reports through Type() the
\* tag of its source document; that tag is a key of the registry, and the
\* registry maps it to the object's struct type.
C10_TagAgreement ==
    (pc = "done" /\ ret.err = nil) =>
        /\ Len(ret.objs) = Len(stream)
        /\ \A i \in 1..Len(ret.objs) :
            /\ HasTag(stream[i])
            /\ Type(ret.objs[i]) = TagOf(stream[i])
            /\ Type(ret.objs[i]) \in DOMAIN Registry
            /\ Registry[Type(ret.objs[i])].Name = ret.objs[i].type

C10_Witness ==
    /\ pc = "done"
    /\ ret.err = nil
    /\ Len(ret.objs) = 2
    /\ Type(ret.objs[1]) = TypeMeta("Cherry")
    /\ ret.objs[1].type = "Apple"
    /\ Type(ret.objs[2]) = TypeMeta("Banana")

(***************************************************************************)
(* What the decode-time errors carry                                       *)
(***************************************************************************)
\* The operands an error's text is formatted from.
Operands(err) == {err.name, err.old, err.new} \ {""}

\* The text a document's index in the stream would be formatted as.
IndexText(i) == <<"#1", "#2", "#3", "#4">>[i]

\* C11: every error Decode returns carries the index of the document that
\* caused it, and the unknown-type error the unresolved type name as well.
C11_ErrorsCarryPosition ==
    (pc = "done" /\ ret.err # nil) =>
        /\ IndexText(pos) \in Operands(ret.err)
        /\ ret.err.kind = "noRegisteredType" => ret.err.name = TagOf(stream[pos]).TypeName

(***************************************************************************)
(* Properties of the two registration entry points                         *)
(***************************************************************************)
\* C12: MustRegisterObject panics exactly when registerObject returns an
\* error, and then leaves Registry as it was; otherwise it returns and
\* Registry maps the tag to the object's struct type, all else as it was.
C12_MustRegisterIsCheckedRegistration ==
    (call.made /\ call.via = "MustRegisterObject") =>
        /\ call.must = "panic" <=> (call.outcome = "return" /\ call.err # nil)
        /\ call.must = "panic" => Registry = call.before
        /\ call.must = "return" =>
            /\ DOMAIN Registry = DOMAIN call.before \cup {call.meta}
            /\ Registry[call.meta] = Elem(call.obj)
            /\ \A k \in DOMAIN call.before \ {call.meta} : Registry[k] = call.before[k]

\* C13: registerObject returns for every input, with no error or with one of
\* the three registration errors; it never panics.
C13_RegisterObjectNeverPanics ==
    call.made =>
        /\ call.outcome = "return"
        /\ call.err.kind \in {"nil", "errTypeNameMissing", "errInvalidType", "DoubleRegistration"}

(***************************************************************************)
(* Properties of Decode as a whole                                         *)
(***************************************************************************)
\* C14: Decode never panics on a registry built by registerObject: every
\* registered type is a struct whose pointer type is an Object, so the
\* conversion in findObject succeeds for every document that resolves.
C14_DecodeNeverPanics ==
    /\ pc # "panicked"
    /\ \A k \in DOMAIN Registry :
        /\ Registry[k].Kind = "struct"
        /\ NewIsObject(Registry[k])
    /\ pc \in {"loop", "done"} =>
        \A i \in 1..Len(objs) : NewIsObject(Named(objs[i].type))

C14_Witness ==
    /\ pc = "done"
    /\ Len(stream) = 2
    /\ Len(objs) = 1
    /\ objs[1].type = "Banana"
    /\ ret.err.kind = "unableToDecode"

\* A step of a Decode call: from its start to its return.
DecodeStep == pc' = "loop" \/ pc = "loop"

\* C15: no step of a Decode call, successful or failing, adds, removes or
\* remaps a key of the registry.
C15_DecodeLeavesRegistry == [][DecodeStep => Registry' = Registry]_vars

C15_Witness ==
    /\ pc = "done"
    /\ Cardinality(DOMAIN Registry) = 2
    /\ Len(stream) = 2
    /\ Len(objs) = 1
    /\ ret.err.kind = "noRegisteredType"

\* The document is an object with no type_name member, or an empty one.
NoTypeName(doc) ==
    /\ doc.form = "object"
    /\ "type_name" \in DOMAIN doc.fields => doc.fields["type_name"] = JStr("")

\* C16: a Decode call that reaches an object with no type name, or an empty
\* one, ends there with the unknown-type error naming the empty type name and
\* with no objects: such a document never resolves.
C16_MissingTypeNameNeverResolves ==
    \A i \in 1..Len(stream) :
        (NoTypeName(stream[i]) /\ pos >= i) =>
            /\ pc = "done"
            /\ pos = i
            /\ ret.err = Err("noRegisteredType", "", "", "")
            /\ ret.objs = << >>

C16_Witness ==
    /\ pc = "done"
    /\ pos = 2
    /\ stream[2] = JObject([color |-> JStr("Red")])
    /\ TypeMeta("Apple") \in DOMAIN Registry
    /\ Len(objs) = 1
    /\ ret.err = Err("noRegisteredType", "", "", "")
    /\ ret.objs = << >>

(***************************************************************************)
(* Properties of the shipped program                                       *)
(***************************************************************************)
\* The registry init leaves behind.
InitRegistry == (AppleTypeMeta :> Named("Apple")) @@ (BananaTypeMeta :> Named("Banana"))

\* main has been entered.
InMain == prog \in {"main", "decoding", "exit", "fatal"}

\* Both registrations are complete when main is entered, no Decode runs before
\* that, the program neither panics nor exits through log.Fatalf, and Decode
\* returns the Apple and then the Banana of input.
ProgramInv ==
    /\ prog \in {"init", "init2", "main"} => pc = "idle"
    /\ InMain => Registry = InitRegistry
    /\ prog \notin {"panicked", "fatal"}
    /\ prog # "harness" => pc # "panicked"
    /\ (prog # "harness" /\ pc = "done") =>
        /\ ret.err = nil
        /\ Len(ret.objs) = 2
        /\ ret.objs[1].type = "Apple"
        /\ ret.objs[1].val = [TypeName |-> "Apple", Color |-> "Red"]
        /\ ret.objs[2].type = "Banana"
        /\ ret.objs[2].val = [TypeName |-> "Banana", Ripe |-> TRUE]

\* Once main is entered no registration runs.
NoRegistrationInMain == InMain => (Registry' = Registry /\ call' = call)

\* C17: in the shipped program both init registrations complete before main
\* calls Decode, no registration runs during or after the Decode, and the
\* Decode of the built-in input returns the Apple followed by the Banana.
C17_RegistrationBeforeDecode == []ProgramInv /\ [][NoRegistrationInMain]_vars

C17_Witness ==
    /\ prog = "exit"
    /\ pc = "done"
    /\ ret.err = nil
    /\ Len(ret.objs) = 2
    /\ Type(ret.objs[1]) = AppleTypeMeta
    /\ Type(ret.objs[2]) = BananaTypeMeta

(***************************************************************************)
(* Termination of Decode                                                   *)
(***************************************************************************)
\* A step of the loop reads the next document of the stream, or finds the
\* stream at its end and returns objs with no error.
LoopStep ==
    pc = "loop" =>
        /\ stream' = stream
        /\ \/ /\ pos < Len(stream)
              /\ pos' = pos + 1
              /\ pc' \in {"loop", "done"}
              /\ pc' = "done" => ret'.err # nil
           \/ /\ pos = Len(stream)
              /\ pos' = pos
              /\ pc' = "done"
              /\ ret' = [objs |-> objs, err |-> nil]

\* A call ends at the first error, with no objects, or at the end of the
\* stream, with no error; a failed read is "unable to decode object".
EndInv ==
    pc = "done" =>
        /\ ret.err = nil => pos = Len(stream) /\ Len(ret.objs) = pos
        /\ ret.err # nil =>
            /\ ret.objs = << >>
            /\ pos >= 1
            /\ Len(objs) = pos - 1
            /\ stream[pos] = Garbage <=> ret.err = Err("unableToDecode", "", "", "")

\* C18: every Decode call on a finite stream returns; its loop reads each
\* document at most once, in stream order, and ends at the first error or at
\* io.EOF, which is a normal return and not an error; a read error other than
\* io.EOF returns the error and no objects.
C18_DecodeTerminates ==
    /\ (pc = "loop") ~> (pc = "done")
    /\ [][LoopStep]_vars
    /\ []EndInv

C18_Witness ==
    /\ pc = "done"
    /\ Len(stream) = 2
    /\ pos = 2
    /\ ret.err = nil
    /\ Len(ret.objs) = 2
    /\ prog = "harness"

====
